---- MODULE Spec2Model ----
\* percolate: PeekStream (src/stream/peek_stream.rs), the projection adapters
\* (src/projection/*.rs) and PinHandleMut (src/handles.rs) as state machines.
\*
\* Six specifications share the variables:
\*   Spec      the PeekStream in front of a fused source stream;
\*   SpecMut   Spec plus next_if_mut with a predicate that writes to the item;
\*   SpecProj  one projection adapter and the PinHandleMut it hands out;
\*   SpecSwap  SpecProj plus a caller that swaps the pin out of the handle;
\*   SpecHint  Stream::size_hint of a PeekStream over sources with any hint;
\*   SpecModular  the operators of the ring index Modular<CAPACITY>.
EXTENDS Integers, Sequences, FiniteSets, TLC

\* ---------------------------------------------------------------- bounds
\* Largest CAPACITY const generic instantiated.
MaxCapacity == 3
\* Longest source sequence; the source yields 1, 2, .., n.
MaxItems == 4
\* Largest input value handed to a projection.
MaxValue == 2
\* Most polls an inner future of AsyncMut stays pending.
MaxPending == 2
\* Addresses a caller's referents live at.
MaxAddr == 2
\* Most calls of the wrapped closure one adapter makes.
MaxCalls == 3
\* usize::MAX of the narrowed usize the length hints are computed in.
UsizeMax == 7

\* ------------------------------------------------- Option / Poll encoding
\* Option<T>: None is the empty tuple, Some(v) the one-element tuple.
None == << >>
Some(v) == << v >>
\* MaybeUninit<T>: a slot never written holds no defined value.
Uninit == << >>
\* Poll<T> and an unwinding panic as the third way a call can end.
Ready(v) == [k |-> "Ready", v |-> v]
Pending == [k |-> "Pending", v |-> None]
Panic == [k |-> "Panic", v |-> None]

\* ------------------------------------------------------------- variables
VARIABLES
    \* PeekStream<Input, CAPACITY>
    CAPACITY,   \* the const generic, fixed per behaviour
    input,      \* the fused source: [rest, ready, terminated]
    buffer,     \* [0..CAPACITY-1 -> MaybeUninit<Item>]
    start,      \* Modular<CAPACITY>
    len,        \* usize
    call,       \* the PeekStream future suspended at input.next().await, if any
    ev,         \* what the last finished PeekStream call observed
    source,     \* every item the source yields, in order (history)
    consumed,   \* the items handed out by consuming calls, in order (history)
    scen,       \* how far the calls so far follow ScenarioOps (-1: they do not)
    \* projection adapter and its handle
    proj,       \* the adapter: [kind, projection, param, future]; the projection
                \* is the FnMut [f, delay, calls, fused], counting its own invocations
    handle,     \* the PinHandleMut alive, if any: Some([on_drop, ...])
    referent,   \* the value behind the reference passed to a Ref/Mut adapter
    pev,        \* what the last adapter/handle operation observed
    taken,      \* the Pin<&mut dyn Future> the caller swapped out of the handle, if any
    \* &self observers
    obs         \* the last size_hint call: the source's hint and the result

streamVars == <<CAPACITY, input, buffer, start, len, call, ev, source, consumed, scen>>
projVars == <<proj, handle, referent, pev, taken>>
obsVars == <<obs>>
vars == <<CAPACITY, input, buffer, start, len, call, ev, source, consumed, scen,
          proj, handle, referent, pev, taken, obs>>

\* ------------------------------------------------- Modular<MODULE> (ring index)
\* impl Add<usize> for Modular<MODULE>: (self.0 + rhs % MODULE) % MODULE.
ModularAdd(self, rhs, modulus) == (self + (rhs % modulus)) % modulus

\* Modular + usize that adds the whole rhs before reducing.
Modular_add_NoReduce(self, rhs, modulus) ==
    IF self + rhs > UsizeMax
    THEN Panic
    ELSE Ready((self + rhs) % modulus)

\* impl Add<usize> for Modular<MODULE> in usize arithmetic:
\* self.0.checked_add(rhs % MODULE).expect(..) % MODULE; the expect panics when
\* the sum does not fit a usize.
Modular_add(self, rhs, modulus) ==
    IF self + (rhs % modulus) > UsizeMax
    THEN Panic
    ELSE Ready(ModularAdd(self, rhs, modulus))

\* impl AddAssign<usize> for Modular<MODULE>: *self = *self + rhs; the new *self,
\* or the panic of the addition, which leaves *self as it was.
Modular_add_assign(self, rhs, modulus) == Modular_add(self, rhs, modulus)

\* Modular - Modular as a plain integer subtraction.
ModularSub_Plain(self, rhs, modulus) == self - rhs

\* impl Sub for Modular<MODULE>: self.0 - rhs.0 when self.0 >= rhs.0, else
\* MODULE - rhs.0 + self.0 (the by-reference impls forward to it).
ModularSub(self, rhs, modulus) ==
    IF self >= rhs
    THEN self - rhs
    ELSE modulus - rhs + self

\* ------------------------------------------------------- the fused source
\* The source is the environment's: a stream of the items `rest`, of which the
\* first `ready` events (items, then the end) are available without waiting.
\* Stream::poll_next of the source.
Input_poll_next(inp) ==
    IF inp.terminated
    THEN [input |-> inp, out |-> Ready(None)]
    ELSE IF inp.ready = 0
    THEN [input |-> inp, out |-> Pending]
    ELSE IF inp.rest # << >>
    THEN [input |-> [inp EXCEPT !.rest = Tail(@), !.ready = @ - 1],
          out |-> Ready(Some(Head(inp.rest)))]
    ELSE [input |-> [inp EXCEPT !.ready = 0, !.terminated = TRUE],
          out |-> Ready(None)]

\* FusedStream::is_terminated of the source.
Input_is_terminated(inp) == inp.terminated

\* ------------------------------------------------------ memory behind references
\* Every bit pattern a read of memory without a defined value can produce.
AnyValue == 0 .. MaxItems
\* Reading the slot at `addr` of `mem`: its value, or any value when it holds none
\* (MaybeUninit never written, or a referent that no longer lives).
Deref(mem, addr) == IF mem[addr] = Uninit THEN AnyValue ELSE {mem[addr][1]}

\* --------------------------------------------------- the wrapped callables
\* The closures handed to the adapters: projections A -> B and predicates &T -> bool.
Funcs == {"succ", "double"}
Preds == {"is_even", "always", "never"}
\* A FnMut(&mut T) -> bool that writes: |x| { *x = -*x; *x % 2 == 0 }.
MutPreds == {"neg_even"}
Apply(f, x) ==
    CASE f = "succ" -> x + 1
      [] f = "double" -> 2 * x
      [] f = "is_even" -> (x % 2 = 0)
      [] f = "neg_even" -> ((-x) % 2 = 0)
      [] f = "always" -> TRUE
      [] f = "never" -> FALSE
\* What a FnMut(&mut A) -> B does to the memory behind its argument, where it read
\* x: "succ" bumps the referent, "neg_even" negates it, the other closures only read.
Write(f, mem, addr, x) ==
    CASE f = "succ" -> [mem EXCEPT ![addr] = Some((x + 1) % (MaxValue + 1))]
      [] f = "neg_even" -> [mem EXCEPT ![addr] = Some(-x)]
      [] OTHER -> mem

\* --------------------------------------------------------- PinHandleMut
\* PinHandleMut::new: the pinned future view and the optional RunOnce.
PinHandleMut_new(pin, on_drop) == [pin |-> pin, on_drop |-> on_drop]

\* -------------------------------------------- FusedBlockingMut (by value)
\* FusedBlockingMut::project that calls the closure at once, for its effects.
FusedBlockingMut_project_Eager(self, value) ==
    [self |-> [self EXCEPT !.param = Some(value), !.projection.calls = @ + 1],
     handle |-> PinHandleMut_new("FusedBlockingMutFuture", Some("ClearFusedBlockingMut"))]

\* ProjectionMut::project / FusedProjectionMut::project_fused.
FusedBlockingMut_project(self, value) ==
    [self |-> [self EXCEPT !.param = Some(value)],
     handle |-> PinHandleMut_new("FusedBlockingMutFuture", Some("ClearFusedBlockingMut"))]

\* FusedBlockingMutFuture::poll that yields once before it resolves.
FusedBlockingMutFuture_poll_YieldsFirst(self, mem) ==
    IF self.param = None
    THEN {[self |-> self, mem |-> mem, out |-> Panic]}
    ELSE {[self |-> self, mem |-> mem, out |-> Pending]}

\* Future::poll of FusedBlockingMutFuture that stays pending on an empty slot
\* instead of panicking.
FusedBlockingMutFuture_poll_Tolerant(self, mem) ==
    IF self.param = None
    THEN {[self |-> self, mem |-> mem, out |-> Pending]}
    ELSE {[self |-> [self EXCEPT !.param = None, !.projection.calls = @ + 1], mem |-> mem,
           out |-> Ready(Apply(self.projection.f, self.param[1]))]}

\* Future::poll of FusedBlockingMutFuture.
FusedBlockingMutFuture_poll(self, mem) ==
    IF self.param = None
    THEN {[self |-> self, mem |-> mem, out |-> Panic]}
    ELSE {[self |-> [self EXCEPT !.param = None, !.projection.calls = @ + 1], mem |-> mem,
           out |-> Ready(Apply(self.projection.f, self.param[1]))]}

\* FusedFuture::is_terminated of FusedBlockingMutFuture that never reports termination.
FusedBlockingMutFuture_is_terminated_Never(self) == FALSE

\* FusedFuture::is_terminated of FusedBlockingMutFuture.
FusedBlockingMutFuture_is_terminated(self) == self.param = None

\* Runnable::run of ClearFusedBlockingMut.
ClearFusedBlockingMut_run(self) == [self EXCEPT !.param = None]

\* --------------------------------------- FusedRefBlockingMut (by reference)
\* FusedRefBlockingMut::project that keeps a pointer already in the slot
\* (get_or_insert instead of an assignment).
FusedRefBlockingMut_project_KeepOld(self, value) ==
    [self |-> [self EXCEPT !.param = IF @ = None THEN Some(value) ELSE @],
     handle |-> PinHandleMut_new("FusedRefBlockingFutureMut", None)]

\* ProjectionMut<&A, B>::project and its &mut A / fused twins: param = Some(value.into()).
FusedRefBlockingMut_project(self, value) ==
    [self |-> [self EXCEPT !.param = Some(value)],
     handle |-> PinHandleMut_new("FusedRefBlockingFutureMut", None)]

\* FusedRefBlockingFutureMut::poll that yields once before it resolves.
FusedRefBlockingFutureMut_poll_YieldsFirst(self, mem) ==
    IF self.param = None
    THEN {[self |-> self, mem |-> mem, out |-> Panic]}
    ELSE {[self |-> self, mem |-> mem, out |-> Pending]}

\* FusedRefBlockingFutureMut::poll that reads the slot without taking from it.
FusedRefBlockingFutureMut_poll_NoTake(self, mem) ==
    IF self.param = None
    THEN {[self |-> self, mem |-> mem, out |-> Panic]}
    ELSE {[self |-> [self EXCEPT !.projection.calls = @ + 1], mem |-> mem,
           out |-> Ready(Apply(self.projection.f, x))] : x \in Deref(mem, self.param[1])}

\* Future::poll of FusedRefBlockingFutureMut: f(param_ptr.as_ref()).
FusedRefBlockingFutureMut_poll(self, mem) ==
    IF self.param = None
    THEN {[self |-> self, mem |-> mem, out |-> Panic]}
    ELSE {[self |-> [self EXCEPT !.param = None, !.projection.calls = @ + 1], mem |-> mem,
           out |-> Ready(Apply(self.projection.f, x))] : x \in Deref(mem, self.param[1])}

\* FusedFuture::is_terminated of FusedRefBlockingFutureMut.
FusedRefBlockingFutureMut_is_terminated(self) == self.param = None

\* ------------------------------- FusedMutBlockingMut (by mutable reference)
\* FusedMutBlockingMut::project that keeps a pointer already in the slot.
FusedMutBlockingMut_project_KeepOld(self, value) ==
    [self |-> [self EXCEPT !.param = IF @ = None THEN Some(value) ELSE @],
     handle |-> PinHandleMut_new("FusedMutBlockingFutureMut", None)]

\* ProjectionMut<&mut A, B>::project / project_fused.
FusedMutBlockingMut_project(self, value) ==
    [self |-> [self EXCEPT !.param = Some(value)],
     handle |-> PinHandleMut_new("FusedMutBlockingFutureMut", None)]

\* FusedMutBlockingFutureMut::poll that reads the slot without taking from it.
FusedMutBlockingFutureMut_poll_NoTake(self, mem) ==
    IF self.param = None
    THEN {[self |-> self, mem |-> mem, out |-> Panic]}
    ELSE {[self |-> [self EXCEPT !.projection.calls = @ + 1],
           mem |-> Write(self.projection.f, mem, self.param[1], x),
           out |-> Ready(Apply(self.projection.f, x))] : x \in Deref(mem, self.param[1])}

\* Future::poll of FusedMutBlockingFutureMut: f(param_ptr.as_mut()).
FusedMutBlockingFutureMut_poll(self, mem) ==
    IF self.param = None
    THEN {[self |-> self, mem |-> mem, out |-> Panic]}
    ELSE {[self |-> [self EXCEPT !.param = None, !.projection.calls = @ + 1],
           mem |-> Write(self.projection.f, mem, self.param[1], x),
           out |-> Ready(Apply(self.projection.f, x))] : x \in Deref(mem, self.param[1])}

\* FusedFuture::is_terminated of FusedMutBlockingFutureMut.
FusedMutBlockingFutureMut_is_terminated(self) == self.param = None

\* --------------------------------------------------------------- AsyncMut
\* The operation f(value) returns: an `async move` block resolving to the result
\* after `delay` pending polls, wrapped in Fuse (FutureExt::fuse) when the
\* closure is one that returns a FusedFuture.
Call(projection, value) ==
    [x |-> value, left |-> projection.delay, done |-> FALSE, fused |-> projection.fused]

\* Future::poll of that inner operation. Polled again after it resolved, an async
\* block panics ("`async fn` resumed after completion") and a Fuse returns Pending.
Inner_poll(fut, f) ==
    IF fut.done
    THEN [fut |-> fut, out |-> IF fut.fused THEN Pending ELSE Panic]
    ELSE IF fut.left > 0
    THEN [fut |-> [fut EXCEPT !.left = @ - 1], out |-> Pending]
    ELSE [fut |-> [fut EXCEPT !.done = TRUE], out |-> Ready(Apply(f, fut.x))]

\* AsyncMut::project that stores an operation deferring the call of the closure.
AsyncMut_project_Lazy(self, value) ==
    [self |-> [self EXCEPT !.future = Some(Call(self.projection, value))],
     handle |-> PinHandleMut_new("AsyncMutFuture", Some("ClearAsyncMut"))]

\* ProjectionMut::project / project_fused: future = Some((self.projection)(value)).
AsyncMut_project(self, value) ==
    [self |-> [self EXCEPT !.future = Some(Call(self.projection, value)),
                           !.projection.calls = @ + 1],
     handle |-> PinHandleMut_new("AsyncMutFuture", Some("ClearAsyncMut"))]

\* AsyncMutFuture::poll that reports pending on an empty slot instead of expecting.
AsyncMutFuture_poll_PendingOnEmpty(self, mem) ==
    IF self.future = None
    THEN {[self |-> self, mem |-> mem, out |-> Pending]}
    ELSE LET r == Inner_poll(self.future[1], self.projection.f)
         IN {[self |-> [self EXCEPT !.future = Some(r.fut)], mem |-> mem, out |-> r.out]}

\* AsyncMutFuture::poll that polls a pending inner operation a second time at once.
AsyncMutFuture_poll_Twice(self, mem) ==
    IF self.future = None
    THEN {[self |-> self, mem |-> mem, out |-> Panic]}
    ELSE LET r1 == Inner_poll(self.future[1], self.projection.f)
             r == IF r1.out.k = "Pending" THEN Inner_poll(r1.fut, self.projection.f) ELSE r1
         IN {[self |-> [self EXCEPT !.future = Some(r.fut)], mem |-> mem, out |-> r.out]}

\* Future::poll of AsyncMutFuture: future.as_mut().expect("unreachable").poll(cx).
AsyncMutFuture_poll(self, mem) ==
    IF self.future = None
    THEN {[self |-> self, mem |-> mem, out |-> Panic]}
    ELSE LET r == Inner_poll(self.future[1], self.projection.f)
         IN {[self |-> [self EXCEPT !.future = Some(r.fut)], mem |-> mem, out |-> r.out]}

\* FusedFuture::is_terminated of the inner operation F.
Inner_is_terminated(fut) == fut.done

\* AsyncMutFuture::is_terminated computed the blocking adapters' way: slot empty.
AsyncMutFuture_is_terminated_SlotEmpty(self) == Ready(self.future = None)

\* FusedFuture::is_terminated of AsyncMutFuture:
\* future.as_ref().expect("unreachable").is_terminated().
AsyncMutFuture_is_terminated(self) ==
    IF self.future = None THEN Panic ELSE Ready(Inner_is_terminated(self.future[1]))

\* ClearAsyncMut::run that leaves the stored operation in place.
ClearAsyncMut_run_Noop(self) == self

\* Runnable::run of ClearAsyncMut: future.set(None).
ClearAsyncMut_run(self) == [self EXCEPT !.future = None]

\* ------------------------------------------- PinHandleMut, continued
\* RunOnce::run on the dyn Runnable stored in the handle.
RunOnce_run(clear, self) ==
    CASE clear = "ClearFusedBlockingMut" -> ClearFusedBlockingMut_run(self)
      [] clear = "ClearAsyncMut" -> ClearAsyncMut_run(self)

\* Future::poll of PinHandleMut: self.pin.as_mut().poll(cx) on the dyn Future.
PinHandleMut_poll(h, self, mem) ==
    CASE h.pin = "FusedBlockingMutFuture" -> FusedBlockingMutFuture_poll(self, mem)
      [] h.pin = "FusedRefBlockingFutureMut" -> FusedRefBlockingFutureMut_poll(self, mem)
      [] h.pin = "FusedMutBlockingFutureMut" -> FusedMutBlockingFutureMut_poll(self, mem)
      [] h.pin = "AsyncMutFuture" -> AsyncMutFuture_poll(self, mem)

\* FusedFuture::is_terminated of PinHandleMut: self.pin.is_terminated().
PinHandleMut_is_terminated(h, self) ==
    CASE h.pin = "FusedBlockingMutFuture" -> Ready(FusedBlockingMutFuture_is_terminated(self))
      [] h.pin = "FusedRefBlockingFutureMut" ->
             Ready(FusedRefBlockingFutureMut_is_terminated(self))
      [] h.pin = "FusedMutBlockingFutureMut" ->
             Ready(FusedMutBlockingFutureMut_is_terminated(self))
      [] h.pin = "AsyncMutFuture" -> AsyncMutFuture_is_terminated(self)

\* DerefMut for PinHandleMut hands out &mut Pin<&'a mut T>: core::mem::replace on
\* it leaves the caller's pin in the handle and gives the handle's pin to the caller.
PinHandleMut_deref_mut_replace(h, pin) == [h |-> [h EXCEPT !.pin = pin], old |-> h.pin]

\* Drop for PinHandleMut that takes the RunOnce and forgets to run it.
PinHandleMut_drop_NoRun(h, self) ==
    [h |-> [h EXCEPT !.on_drop = None], self |-> self, ran |-> 0]

\* Drop for PinHandleMut: self.on_drop.take().map(RunOnce::run).unwrap_or_default().
PinHandleMut_drop(h, self) ==
    IF h.on_drop # None
    THEN [h |-> [h EXCEPT !.on_drop = None], self |-> RunOnce_run(h.on_drop[1], self), ran |-> 1]
    ELSE [h |-> h, self |-> self, ran |-> 0]

\* ------------------------------------------------------------ predicates
\* IntoPredicateMut::into_predicate_mut on a closure: FusedRefBlockingMut::from.
FusedRefBlockingMut_from(projection) ==
    [kind |-> "ref", projection |-> projection, param |-> None, future |-> None]

\* PredicateMut::test is project_ref, which is project.
PredicateMut_test(self, value) == FusedRefBlockingMut_project(self, value)

\* IntoMutPredicateMut::into_mut_predicate_mut on a FnMut(&mut T) -> bool closure.
FusedMutBlockingMut_from(projection) ==
    [kind |-> "mut", projection |-> projection, param |-> None, future |-> None]

\* MutPredicateMut::test_mut is project_mut, which is project.
MutPredicateMut_test_mut(self, value) == FusedMutBlockingMut_project(self, value)

\* ------------------------------------------------------------ PeekStream
\* The PeekStream's fields as one value, for the operators below.
This == [input |-> input, buffer |-> buffer, start |-> start, len |-> len]

\* poll_next that hands out slot `start` without advancing `start`.
poll_next_NoAdvance(this) ==
    IF this.len > 0
    THEN LET i == this.start
             t == [this EXCEPT !.len = @ - 1]
         IN {[this |-> t, out |-> Ready(Some(x)), polls |-> 0] : x \in Deref(this.buffer, i)}
    ELSE LET r == Input_poll_next(this.input)
         IN {[this |-> [this EXCEPT !.input = r.input], out |-> r.out, polls |-> 1]}

\* poll_next that advances `start` as a plain usize, without the modular reduction.
poll_next_NoWrap(this) ==
    IF this.len > 0
    THEN LET i == this.start
             t == [this EXCEPT !.start = @ + 1, !.len = @ - 1]
         IN {[this |-> t, out |-> Ready(Some(x)), polls |-> 0] : x \in Deref(this.buffer, i)}
    ELSE LET r == Input_poll_next(this.input)
         IN {[this |-> [this EXCEPT !.input = r.input], out |-> r.out, polls |-> 1]}

\* poll_next that pops without decrementing `len`.
poll_next_KeepLen(this) ==
    IF this.len > 0
    THEN LET i == this.start
             t == [this EXCEPT !.start = ModularAdd(@, 1, CAPACITY)]
         IN {[this |-> t, out |-> Ready(Some(x)), polls |-> 0] : x \in Deref(this.buffer, i)}
    ELSE LET r == Input_poll_next(this.input)
         IN {[this |-> [this EXCEPT !.input = r.input], out |-> r.out, polls |-> 1]}

\* Stream::poll_next: pop slot `start` when something is buffered, else delegate.
poll_next(this) ==
    IF this.len > 0
    THEN LET i == this.start
             t == [this EXCEPT !.start = ModularAdd(@, 1, CAPACITY), !.len = @ - 1]
         IN {[this |-> t, out |-> Ready(Some(x)), polls |-> 0] : x \in Deref(this.buffer, i)}
    ELSE LET r == Input_poll_next(this.input)
         IN {[this |-> [this EXCEPT !.input = r.input], out |-> r.out, polls |-> 1]}

\* Stream::size_hint with an upper bound that saturates at usize::MAX.
size_hint_Saturating(this, hint) ==
    LET end == IF hint[2] = None THEN None
               ELSE IF hint[2][1] + this.len > UsizeMax THEN Some(UsizeMax)
               ELSE Some(hint[2][1] + this.len)
    IN IF hint[1] + this.len > UsizeMax
       THEN {Panic, Ready(<<(hint[1] + this.len) % (UsizeMax + 1), end>>)}
       ELSE {Ready(<<hint[1] + this.len, end>>)}

\* Stream::size_hint, `hint` being self.input.size_hint():
\* (start + self.len, end.and_then(|end| end.checked_add(self.len))).
\* `start + self.len` is a plain usize addition: beyond usize::MAX it panics where
\* overflow checks are compiled in and wraps around where they are not.
size_hint(this, hint) ==
    LET end == IF hint[2] = None THEN None
               ELSE IF hint[2][1] + this.len > UsizeMax THEN None
               ELSE Some(hint[2][1] + this.len)
    IN IF hint[1] + this.len > UsizeMax
       THEN {Panic, Ready(<<(hint[1] + this.len) % (UsizeMax + 1), end>>)}
       ELSE {Ready(<<hint[1] + this.len, end>>)}

\* FusedStream::is_terminated that looks at the buffer only.
is_terminated_BufferOnly(this) == this.len = 0

\* FusedStream::is_terminated that looks at the source only.
is_terminated_SourceOnly(this) == Input_is_terminated(this.input)

\* FusedStream::is_terminated: self.len == 0 && self.input.is_terminated().
is_terminated(this) == this.len = 0 /\ Input_is_terminated(this.input)

RECURSIVE peek_n_mut_loop(_, _, _, _), peek_n_mut_await(_, _, _, _)
\* `this.input.next().await?` with `len += 1` moved ahead of the await: a future
\* suspended here has already counted the item it is waiting for.
peek_n_mut_await_CountFirst(this, depth, pulls, polls) ==
    LET r == Input_poll_next(this.input)
        t == [this EXCEPT !.input = r.input]
    IN IF r.out = Pending
       THEN [this |-> [t EXCEPT !.len = @ + 1], res |-> "Pending", idx |-> 0,
             pulls |-> pulls, polls |-> polls + 1]
       ELSE IF r.out.v = None
       THEN [this |-> t, res |-> "None", idx |-> 0, pulls |-> pulls, polls |-> polls + 1]
       ELSE peek_n_mut_loop(
                [t EXCEPT !.buffer[ModularAdd(t.start, t.len, CAPACITY)] = Some(r.out.v[1]),
                          !.len = @ + 1],
                depth, pulls + 1, polls + 1)

\* `this.input.next().await?` with the store going to slot `start`.
peek_n_mut_await_WriteAtStart(this, depth, pulls, polls) ==
    LET r == Input_poll_next(this.input)
        t == [this EXCEPT !.input = r.input]
    IN IF r.out = Pending
       THEN [this |-> t, res |-> "Pending", idx |-> 0, pulls |-> pulls, polls |-> polls + 1]
       ELSE IF r.out.v = None
       THEN [this |-> t, res |-> "None", idx |-> 0, pulls |-> pulls, polls |-> polls + 1]
       ELSE peek_n_mut_loop(
                [t EXCEPT !.buffer[t.start] = Some(r.out.v[1]), !.len = @ + 1],
                depth, pulls + 1, polls + 1)

\* `this.input.next().await?` and the store that follows it: one poll of the source;
\* the future is suspended here when the source is pending, and resumed here.
peek_n_mut_await(this, depth, pulls, polls) ==
    LET r == Input_poll_next(this.input)
        t == [this EXCEPT !.input = r.input]
    IN IF r.out = Pending
       THEN [this |-> t, res |-> "Pending", idx |-> 0, pulls |-> pulls, polls |-> polls + 1]
       ELSE IF r.out.v = None
       THEN [this |-> t, res |-> "None", idx |-> 0, pulls |-> pulls, polls |-> polls + 1]
       ELSE peek_n_mut_loop(
                [t EXCEPT !.buffer[ModularAdd(t.start, t.len, CAPACITY)] = Some(r.out.v[1]),
                          !.len = @ + 1],
                depth, pulls + 1, polls + 1)

\* The loop with the test `len <= depth`: it pulls one item more than asked for.
peek_n_mut_loop_PullAhead(this, depth, pulls, polls) ==
    IF this.len < depth + 1
    THEN IF Input_is_terminated(this.input)
         THEN [this |-> this, res |-> "None", idx |-> 0, pulls |-> pulls, polls |-> polls]
         ELSE peek_n_mut_await(this, depth, pulls, polls)
    ELSE [this |-> this, res |-> "Some", idx |-> ModularAdd(this.start, depth, CAPACITY),
          pulls |-> pulls, polls |-> polls]

\* The loop without its `this.input.is_terminated()` test: it polls an ended source.
peek_n_mut_loop_NoFuseCheck(this, depth, pulls, polls) ==
    IF this.len < depth
    THEN peek_n_mut_await(this, depth, pulls, polls)
    ELSE [this |-> this, res |-> "Some", idx |-> ModularAdd(this.start, depth, CAPACITY),
          pulls |-> pulls, polls |-> polls]

\* The `while *this.len < depth.get()` loop and the slot handed out after it.
peek_n_mut_loop(this, depth, pulls, polls) ==
    IF this.len < depth
    THEN IF Input_is_terminated(this.input)
         THEN [this |-> this, res |-> "None", idx |-> 0, pulls |-> pulls, polls |-> polls]
         ELSE peek_n_mut_await(this, depth, pulls, polls)
    ELSE [this |-> this, res |-> "Some", idx |-> ModularAdd(this.start, depth, CAPACITY),
          pulls |-> pulls, polls |-> polls]

\* peek_n_mut with the assert on depth placed after the loop.
peek_n_mut_LateAssert(this, depth) ==
    LET r == peek_n_mut_loop(this, depth, 0, 0)
    IN IF ~(depth <= CAPACITY) /\ r.res # "Pending"
       THEN [r EXCEPT !.res = "Panic"]
       ELSE r

\* peek_n_mut without the assert on depth.
peek_n_mut_NoAssert(this, depth) == peek_n_mut_loop(this, depth, 0, 0)

\* PeekStream::peek_n_mut (peek_n maps its result to a shared reference; peek_1 and
\* peek_1_mut call it with depth 1): the first poll of the returned future.
peek_n_mut(this, depth) ==
    IF ~(depth <= CAPACITY)
    THEN [this |-> this, res |-> "Panic", idx |-> 0, pulls |-> 0, polls |-> 0]
    ELSE peek_n_mut_loop(this, depth, 0, 0)

\* next_if / next_if_mut that consume the next item whatever the predicate says
\* and return it only when the predicate accepted.
next_if_rest_ConsumeOnReject(r, p, op) ==
    IF r.res = "Pending"
    THEN {[this |-> r.this, out |-> Pending, seen |-> None]}
    ELSE IF r.res = "None"
    THEN {[this |-> r.this, out |-> Ready(None), seen |-> None]}
    ELSE LET t == IF op = "next_if"
                  THEN PredicateMut_test(FusedRefBlockingMut_from([f |-> p, delay |-> 0, calls |-> 0, fused |-> FALSE]), r.idx)
                  ELSE MutPredicateMut_test_mut(
                           FusedMutBlockingMut_from([f |-> p, delay |-> 0, calls |-> 0, fused |-> FALSE]), r.idx)
         IN UNION {
              LET this1 == [r.this EXCEPT !.buffer = o.mem]
              IN {[this |-> n.this, out |-> IF o.out.v THEN n.out ELSE Ready(None),
                   seen |-> Some(r.idx)] : n \in poll_next(this1)}
              : o \in PinHandleMut_poll(t.handle, t.self, r.this.buffer) }

\* PeekStream::next_if / next_if_mut after `self.as_mut().peek_1().await` (or
\* peek_1_mut) has produced `r`: the predicate is converted, tested on the peeked
\* reference and, when it accepts, `self.next().await` consumes.
next_if_rest(r, p, op) ==
    IF r.res = "Pending"
    THEN {[this |-> r.this, out |-> Pending, seen |-> None]}
    ELSE IF r.res = "None"
    THEN {[this |-> r.this, out |-> Ready(None), seen |-> None]}
    ELSE LET t == IF op = "next_if"
                  THEN PredicateMut_test(FusedRefBlockingMut_from([f |-> p, delay |-> 0, calls |-> 0, fused |-> FALSE]), r.idx)
                  ELSE MutPredicateMut_test_mut(
                           FusedMutBlockingMut_from([f |-> p, delay |-> 0, calls |-> 0, fused |-> FALSE]), r.idx)
         IN UNION {
              LET this1 == [r.this EXCEPT !.buffer = o.mem]
              IN IF o.out.v
                 THEN {[this |-> n.this, out |-> n.out, seen |-> Some(r.idx)] :
                          n \in poll_next(this1)}
                 ELSE {[this |-> this1, out |-> Ready(None), seen |-> Some(r.idx)]}
              : o \in PinHandleMut_poll(t.handle, t.self, r.this.buffer) }

\* ------------------------------------------------------- PeekStream: state
Idle == [op |-> "idle", depth |-> 0, pred |-> "-", pulls |-> 0]

\* The calls of the concrete scenario: CAPACITY = 2 over the source 1, 2, 3.
ScenarioOps ==
    << <<"peek_n", 2>>, <<"poll_next", 0>>, <<"peek_n", 1>>,
       <<"poll_next", 0>>, <<"poll_next", 0>>, <<"poll_next", 0>> >>

\* The scenario position after a call `op(depth)` that finished at once (or not).
ScenAfter(op, depth, finished) ==
    IF /\ finished
       /\ scen >= 0
       /\ scen < Len(ScenarioOps)
       /\ ScenarioOps[scen + 1] = <<op, depth>>
    THEN scen + 1
    ELSE -1

SetThis(t) ==
    /\ input' = t.input
    /\ buffer' = t.buffer
    /\ start' = t.start
    /\ len' = t.len

\* PeekStream over a source yielding 1..n: nothing buffered, every slot uninitialised.
InitStream ==
    /\ CAPACITY \in 1 .. MaxCapacity
    /\ \E n \in 0 .. MaxItems :
         /\ source = [i \in 1 .. n |-> i]
         /\ \E r \in {0, n + 1} :
              input = [rest |-> source, ready |-> r, terminated |-> FALSE]
    /\ buffer = [i \in 0 .. CAPACITY - 1 |-> Uninit]
    /\ start = 0
    /\ len = 0
    /\ call = Idle
    /\ ev = [op |-> "new", depth |-> 0, pred |-> "-", out |-> Ready(None),
             pulls |-> 0, polls |-> 0, seen |-> None, seq |-> 0]
    /\ consumed = << >>
    /\ scen = IF CAPACITY = 2 /\ source = <<1, 2, 3>> /\ input.ready = 4 THEN 0 ELSE -1

\* No PeekStream: the stream variables while an adapter is exercised.
NoStream ==
    /\ CAPACITY = 1
    /\ source = << >>
    /\ input = [rest |-> << >>, ready |-> 0, terminated |-> FALSE]
    /\ buffer = [i \in 0 .. 0 |-> Uninit]
    /\ start = 0
    /\ len = 0
    /\ call = Idle
    /\ ev = [op |-> "new", depth |-> 0, pred |-> "-", out |-> Ready(None),
             pulls |-> 0, polls |-> 0, seen |-> None, seq |-> 0]
    /\ consumed = << >>
    /\ scen = -1

\* The record of a finished call.
Event(op, depth, p, out, pulls, polls, seen) ==
    [op |-> op, depth |-> depth, pred |-> p, out |-> out, pulls |-> pulls,
     polls |-> polls, seen |-> seen, seq |-> 1 - ev.seq]

\* The environment makes one more event of the source (an item, or its end) ready.
SourceReady ==
    /\ ~input.terminated
    /\ input.ready < Len(input.rest) + 1
    /\ input' = [input EXCEPT !.ready = @ + 1]
    /\ UNCHANGED <<CAPACITY, buffer, start, len, call, ev, source, consumed, scen>>
    /\ UNCHANGED projVars
    /\ UNCHANGED obsVars

\* One poll of Stream::poll_next (StreamExt::next polls it until it is ready).
PollNext ==
    /\ call = Idle
    /\ \E r \in poll_next(This) :
         /\ SetThis(r.this)
         /\ ev' = Event("poll_next", 0, "-", r.out, 0, r.polls, None)
         /\ consumed' = IF r.out.v # None THEN Append(consumed, r.out.v[1]) ELSE consumed
         /\ scen' = ScenAfter("poll_next", 0, r.out # Pending)
    /\ UNCHANGED <<CAPACITY, call, source>>
    /\ UNCHANGED projVars
    /\ UNCHANGED obsVars

\* How a peek that got as far as `r` ends: suspended, or finished with an event.
PeekEnd(op, depth, r, pulls0) ==
    /\ SetThis(r.this)
    /\ IF r.res = "Pending"
       THEN /\ call' = [op |-> op, depth |-> depth, pred |-> "-", pulls |-> pulls0 + r.pulls]
            /\ UNCHANGED ev
       ELSE /\ call' = Idle
            /\ \E out \in (CASE r.res = "Panic" -> {Panic}
                             [] r.res = "None" -> {Ready(None)}
                             [] r.res = "Some" ->
                                  {Ready(Some(x)) : x \in Deref(r.this.buffer, r.idx)}) :
                 ev' = Event(op, depth, "-", out, pulls0 + r.pulls, r.polls,
                             IF r.res = "Some" THEN Some(r.idx) ELSE None)
    /\ UNCHANGED <<CAPACITY, source, consumed>>
    /\ UNCHANGED projVars
    /\ UNCHANGED obsVars

\* peek_n(depth) / peek_n_mut(depth) called and polled; depth is a NonZeroUsize.
PeekN(op, depth) ==
    /\ call = Idle
    /\ LET r == peek_n_mut(This, depth)
       IN /\ PeekEnd(op, depth, r, 0)
          /\ scen' = ScenAfter(op, depth, r.res # "Pending")

\* How a next_if / next_if_mut that got as far as peek result `r` ends.
NextIfEnd(op, p, r, pulls0) ==
    /\ \E n \in next_if_rest(r, p, op) :
         /\ SetThis(n.this)
         /\ IF n.out = Pending
            THEN /\ call' = [op |-> op, depth |-> 1, pred |-> p, pulls |-> pulls0 + r.pulls]
                 /\ UNCHANGED <<ev, consumed>>
            ELSE /\ call' = Idle
                 /\ ev' = Event(op, 1, p, n.out, pulls0 + r.pulls, r.polls, n.seen)
                 /\ consumed' = IF n.out.v # None THEN Append(consumed, n.out.v[1]) ELSE consumed
    /\ scen' = -1
    /\ UNCHANGED <<CAPACITY, source>>
    /\ UNCHANGED projVars
    /\ UNCHANGED obsVars

\* next_if(predicate) / next_if_mut(predicate) called and polled.
NextIf(op, p) ==
    /\ call = Idle
    /\ NextIfEnd(op, p, peek_n_mut(This, 1), 0)

\* The executor polls the suspended future again once the source has woken it.
Resume ==
    /\ call # Idle
    /\ input.ready > 0
    /\ LET r == peek_n_mut_await(This, call.depth, 0, 0)
       IN IF call.op \in {"next_if", "next_if_mut"}
          THEN NextIfEnd(call.op, call.pred, r, call.pulls)
          ELSE PeekEnd(call.op, call.depth, r, call.pulls) /\ scen' = -1

\* The caller drops the suspended future.
Cancel ==
    /\ call # Idle
    /\ call' = Idle
    /\ scen' = -1
    /\ UNCHANGED <<CAPACITY, input, buffer, start, len, ev, source, consumed>>
    /\ UNCHANGED projVars
    /\ UNCHANGED obsVars

\* ------------------------------------------------- adapter and handle: state
Kinds == {"value", "ref", "mut", "async"}
Values == 0 .. MaxValue
Addrs == 1 .. MaxAddr

\* from_blocking_mut / from_ref_blocking_mut / from_mut_blocking_mut / from_async_mut:
\* From<P>, with the slot empty.
Adapter_from(kind, projection) ==
    [kind |-> kind, projection |-> projection, param |-> None, future |-> None]

\* An adapter freshly converted from a closure, no handle, no referent alive.
InitProj ==
    /\ \E kind \in Kinds, f \in Funcs, delay \in 0 .. MaxPending, fused \in BOOLEAN :
         /\ kind # "async" => (delay = 0 /\ ~fused)
         /\ proj = Adapter_from(kind, [f |-> f, delay |-> delay, calls |-> 0,
                                       fused |-> fused])
    /\ handle = None
    /\ referent = [a \in Addrs |-> Uninit]
    /\ pev = [op |-> "new", out |-> Pending, arg |-> 0, polls |-> 0, runs |-> 0,
              supplied |-> FALSE, after_cancel |-> FALSE]
    /\ taken = None

\* No adapter: the adapter variables while a PeekStream is exercised.
NoProj ==
    /\ proj = Adapter_from("value", [f |-> "succ", delay |-> 0, calls |-> 0,
                                     fused |-> FALSE])
    /\ handle = None
    /\ referent = [a \in Addrs |-> Uninit]
    /\ pev = [op |-> "new", out |-> Pending, arg |-> 0, polls |-> 0, runs |-> 0,
              supplied |-> FALSE, after_cancel |-> FALSE]
    /\ taken = None

\* The start operation on the adapter `self` for the value x, which a Ref/Mut
\* adapter receives as a reference to address a: project / project_ref / project_mut.
Adapter_project(self, x, a) ==
    CASE self.kind = "value" -> FusedBlockingMut_project(self, x)
      [] self.kind = "ref" -> FusedRefBlockingMut_project(self, a)
      [] self.kind = "mut" -> FusedMutBlockingMut_project(self, a)
      [] self.kind = "async" -> AsyncMut_project(self, x)

\* A start operation taking Pin<&Self>: callable while a handle is alive.
Project_Shared(x, a) ==
    /\ proj.projection.calls < MaxCalls
    /\ LET r == Adapter_project(proj, x, a)
       IN /\ proj' = r.self
          /\ handle' = Some(r.handle)
          /\ pev' = [op |-> "project", out |-> Pending, arg |-> x, polls |-> 0, runs |-> 0,
                     supplied |-> (r.handle.on_drop # None),
                     after_cancel |-> (pev.op = "drop" /\ pev.polls = 0)]
    /\ referent' = IF proj.kind \in {"ref", "mut"}
                   THEN [b \in Addrs |-> IF b = a THEN Some(x) ELSE Uninit]
                   ELSE referent
    /\ UNCHANGED taken
    /\ UNCHANGED streamVars
    /\ UNCHANGED obsVars

\* A transformation is started. The adapter is borrowed exclusively by a live
\* handle (Pin<&mut Self>) and by a pin taken out of one, so neither is alive here. For a Ref/Mut adapter the
\* caller's referent at `a` holds x and stays borrowed while the handle lives;
\* an earlier referent may be gone by now.
Project(x, a) ==
    /\ handle = None
    /\ taken = None
    /\ proj.projection.calls < MaxCalls
    /\ LET r == Adapter_project(proj, x, a)
       IN /\ proj' = r.self
          /\ handle' = Some(r.handle)
          /\ pev' = [op |-> "project", out |-> Pending, arg |-> x, polls |-> 0, runs |-> 0,
                     supplied |-> (r.handle.on_drop # None),
                     after_cancel |-> (pev.op = "drop" /\ pev.polls = 0)]
    /\ referent' = IF proj.kind \in {"ref", "mut"}
                   THEN [b \in Addrs |-> IF b = a THEN Some(x) ELSE Uninit]
                   ELSE referent
    /\ UNCHANGED taken
    /\ UNCHANGED streamVars
    /\ UNCHANGED obsVars

\* The handle is polled (Future::poll through PinHandleMut), at most once more
\* than the operation needs to resolve. A handle the caller put a future of
\* their own into polls that future, which touches nothing here.
Poll ==
    /\ handle # None
    /\ handle[1].pin # "Caller"
    /\ pev.polls < proj.projection.delay + 2
    /\ \E o \in PinHandleMut_poll(handle[1], proj, referent) :
         /\ proj' = o.self
         /\ referent' = o.mem
         /\ pev' = [pev EXCEPT !.op = "poll", !.out = o.out, !.polls = @ + 1]
    /\ UNCHANGED <<handle, taken>>
    /\ UNCHANGED streamVars
    /\ UNCHANGED obsVars

\* The handle is destroyed: dropped unpolled, while pending, or after `.await`.
DropHandle ==
    /\ handle # None
    /\ LET d == PinHandleMut_drop(handle[1], proj)
       IN /\ proj' = d.self
          /\ pev' = [pev EXCEPT !.op = "drop", !.runs = @ + d.ran]
    /\ handle' = None
    /\ UNCHANGED <<referent, taken>>
    /\ UNCHANGED streamVars
    /\ UNCHANGED obsVars

\* --------------------------------------------------------------- size_hint
\* No size_hint call so far.
NoObs == obs = [hint |-> <<0, None>>, len |-> 0, out |-> Pending]

\* A PeekStream holding the first `len` items of its source 1..n in slots 0..len-1.
InitHint ==
    /\ CAPACITY \in 1 .. MaxCapacity
    /\ \E n \in 0 .. MaxItems, l \in 0 .. CAPACITY :
         /\ l <= n
         /\ source = [i \in 1 .. n |-> i]
         /\ len = l
         /\ input = [rest |-> SubSeq(source, l + 1, n), ready |-> 0, terminated |-> FALSE]
    /\ buffer = [i \in 0 .. CAPACITY - 1 |-> IF i < len THEN Some(i + 1) ELSE Uninit]
    /\ start = 0
    /\ call = Idle
    /\ ev = [op |-> "new", depth |-> 0, pred |-> "-", out |-> Ready(None),
             pulls |-> 0, polls |-> 0, seen |-> None, seq |-> 0]
    /\ consumed = << >>
    /\ scen = -1

\* The hints (lower, upper) a source can report: lower <= upper when there is one.
Hints ==
    {<<lo, None>> : lo \in 0 .. UsizeMax}
        \cup {<<lo, Some(hi)>> : lo \in 0 .. UsizeMax, hi \in 0 .. UsizeMax}

\* size_hint(&self) is called while the source reports `hint`.
SizeHint(hint) ==
    /\ call = Idle
    /\ hint[2] # None => hint[1] <= hint[2][1]
    /\ \E o \in size_hint(This, hint) :
         obs' = [hint |-> hint, len |-> len, out |-> o]
    /\ UNCHANGED streamVars
    /\ UNCHANGED projVars

\* ----------------------------------------------- a pin swapped out of the handle
\* The caller replaces the handle's pin by a pinned future of their own.
TakePin ==
    /\ handle # None
    /\ taken = None
    /\ handle[1].pin # "Caller"
    /\ LET r == PinHandleMut_deref_mut_replace(handle[1], "Caller")
       IN /\ handle' = Some(r.h)
          /\ taken' = Some(r.old)
    /\ pev' = [pev EXCEPT !.op = "take"]
    /\ UNCHANGED <<proj, referent>>
    /\ UNCHANGED streamVars
    /\ UNCHANGED obsVars

\* The caller polls the pin they took, whether the handle is still alive or not.
PollTaken ==
    /\ taken # None
    /\ pev.polls < proj.projection.delay + 2
    /\ \E o \in PinHandleMut_poll(PinHandleMut_new(taken[1], None), proj, referent) :
         /\ proj' = o.self
         /\ referent' = o.mem
         /\ pev' = [pev EXCEPT !.op = "poll_taken", !.out = o.out, !.polls = @ + 1]
    /\ UNCHANGED <<handle, taken>>
    /\ UNCHANGED streamVars
    /\ UNCHANGED obsVars

\* The caller lets go of the pin they took.
DropTaken ==
    /\ taken # None
    /\ taken' = None
    /\ pev' = [pev EXCEPT !.op = "drop_taken"]
    /\ UNCHANGED <<proj, handle, referent>>
    /\ UNCHANGED streamVars
    /\ UNCHANGED obsVars

\* --------------------------------------------- Modular<CAPACITY> on its own
\* The ring index `start` of a PeekStream<_, CAPACITY> at any of its values, for
\* every CAPACITY a usize can hold; `obs` records the last operator applied to it.
InitModular ==
    /\ CAPACITY \in 1 .. UsizeMax
    /\ start \in 0 .. CAPACITY - 1
    /\ obs = [op |-> "new", a |-> start, rhs |-> 0, out |-> Ready(start)]
    /\ source = << >>
    /\ input = [rest |-> << >>, ready |-> 0, terminated |-> FALSE]
    /\ buffer = [i \in 0 .. CAPACITY - 1 |-> Uninit]
    /\ len = 0
    /\ call = Idle
    /\ ev = [op |-> "new", depth |-> 0, pred |-> "-", out |-> Ready(None),
             pulls |-> 0, polls |-> 0, seen |-> None, seq |-> 0]
    /\ consumed = << >>
    /\ scen = -1

\* start + rhs: the sum is a temporary, start stays.
Add(rhs) ==
    /\ obs' = [op |-> "add", a |-> start, rhs |-> rhs, out |-> Modular_add(start, rhs, CAPACITY)]
    /\ UNCHANGED streamVars
    /\ UNCHANGED projVars

\* start += rhs.
AddAssign(rhs) ==
    /\ LET r == Modular_add_assign(start, rhs, CAPACITY)
       IN /\ obs' = [op |-> "add_assign", a |-> start, rhs |-> rhs, out |-> r]
          /\ start' = IF r.k = "Ready" THEN r.v ELSE start
    /\ UNCHANGED <<CAPACITY, input, buffer, len, call, ev, source, consumed, scen>>
    /\ UNCHANGED projVars

\* start - rhs, rhs another index of the same ring.
Sub(rhs) ==
    /\ obs' = [op |-> "sub", a |-> start, rhs |-> rhs, out |-> Ready(ModularSub(start, rhs, CAPACITY))]
    /\ UNCHANGED streamVars
    /\ UNCHANGED projVars

\* ------------------------------------------------------- specifications
Init == InitStream /\ NoProj /\ NoObs

Next ==
    \/ SourceReady
    \/ PollNext
    \/ \E op \in {"peek_n", "peek_n_mut"}, depth \in 1 .. CAPACITY + 1 : PeekN(op, depth)
    \/ \E op \in {"next_if", "next_if_mut"}, p \in Preds : NextIf(op, p)
    \/ Resume
    \/ Cancel

Spec == Init /\ [][Next]_vars

NextMut ==
    \/ Next
    \/ \E p \in MutPreds : NextIf("next_if_mut", p)

SpecMut == Init /\ [][NextMut]_vars

InitP == NoStream /\ InitProj /\ NoObs

NextProj ==
    \/ \E x \in Values, a \in Addrs : Project(x, a)
    \/ Poll
    \/ DropHandle

SpecProj == InitP /\ [][NextProj]_vars

NextSwap ==
    \/ NextProj
    \/ TakePin
    \/ PollTaken
    \/ DropTaken

SpecSwap == InitP /\ [][NextSwap]_vars

InitH == InitHint /\ NoProj /\ NoObs

NextHint == \E hint \in Hints : SizeHint(hint)

SpecHint == InitH /\ [][NextHint]_vars

InitM == InitModular /\ NoProj

NextModular ==
    \/ \E rhs \in 0 .. UsizeMax : Add(rhs)
    \/ \E rhs \in 0 .. UsizeMax : AddAssign(rhs)
    \/ \E rhs \in 0 .. CAPACITY - 1 : Sub(rhs)

SpecModular == InitM /\ [][NextModular]_vars

\* ================================================================ claims
IsPeek(e) == e.op \in {"peek_n", "peek_n_mut"}
IsNextIf(e) == e.op \in {"next_if", "next_if_mut"}
Blocking == proj.kind \in {"value", "ref", "mut"}
\* A call finished in this step.
Done == ev'.seq # ev.seq
\* The not-yet-consumed items of the sequence, in order.
Unconsumed == SubSeq(source, Len(consumed) + 1, Len(source))

\* C1: for every blocking adapter (by value, by reference, by mutable reference)
\* wrapping f and every input x, the first poll of the handle returned by the
\* start operation resolves with exactly f(x).
C1_BlockingYieldsFx ==
    (Blocking /\ pev.op = "poll" /\ pev.polls = 1)
        => /\ pev.out.k = "Ready"
           /\ pev.out.v = Apply(proj.projection.f, pev.arg)

C1_Witness ==
    /\ proj.kind = "mut"
    /\ proj.projection.f = "succ"
    /\ pev.op = "poll"
    /\ pev.polls = 1
    /\ pev.arg = MaxValue
    /\ pev.out.k = "Ready"
    /\ pev.out.v = MaxValue + 1

\* C2: after a handle was dropped without ever being polled, a new transformation
\* started with x2 on the same adapter does not panic and, driven to completion,
\* yields the result for x2: pending while the inner operation is, then f(x2).
C2_ReuseAfterCancel ==
    (pev.after_cancel /\ pev.op = "poll" /\ pev.polls <= proj.projection.delay + 1)
        => IF pev.polls <= proj.projection.delay
           THEN pev.out.k = "Pending"
           ELSE /\ pev.out.k = "Ready"
                /\ pev.out.v = Apply(proj.projection.f, pev.arg)

C2_Witness ==
    /\ pev.after_cancel
    /\ proj.kind = "ref"
    /\ pev.op = "poll"
    /\ pev.arg = 1
    /\ pev.out.k = "Ready"
    /\ pev.out.v = Apply(proj.projection.f, 1)

\* C3: the cleanup action of a handle never runs while the handle is alive, and
\* once the handle is destroyed it has run exactly once if one was supplied at
\* construction and never if none was, whatever the polls before; it never runs twice.
C3_CleanupRunsOnce ==
    /\ pev.runs <= 1
    /\ handle # None => pev.runs = 0
    /\ (handle = None /\ pev.op = "drop") => pev.runs = (IF pev.supplied THEN 1 ELSE 0)

C3_Witness ==
    /\ handle = None
    /\ pev.op = "drop"
    /\ pev.supplied
    /\ pev.runs = 1
    /\ pev.polls = 1
    /\ pev.out.k = "Ready"

\* C4: when peek_n(depth) or peek_n_mut(depth) returns an item, it is the item in
\* ring slot (start + depth - 1) mod CAPACITY, the depth-th not-yet-consumed item.
C4_PeekReturnsDepthThItem ==
    (IsPeek(ev) /\ call = Idle /\ ev.out.k = "Ready" /\ ev.out.v # None)
        => /\ ev.out.v = buffer[(start + ev.depth - 1) % CAPACITY]
           /\ Len(Unconsumed) >= ev.depth
           /\ ev.out.v = Some(Unconsumed[ev.depth])

\* C5: peek_n(depth) called twice in a row returns the same item both times, the
\* two calls pull from the source at most depth times together, and a peek_n with
\* depth not larger than the buffered count pulls nothing.
C5_PeekTwiceSame ==
    [][ /\ (Done /\ IsPeek(ev) /\ IsPeek(ev') /\ ev'.depth = ev.depth
              /\ ev.depth <= CAPACITY /\ call = Idle /\ call' = Idle)
            => (ev'.out = ev.out /\ ev.pulls + ev'.pulls <= ev.depth)
        /\ (Done /\ IsPeek(ev') /\ call = Idle /\ ev'.depth <= len)
            => (ev'.pulls = 0 /\ input' = input) ]_vars

\* C6: next_if(p) consumes and returns the next not-yet-consumed item iff p is
\* true on it; otherwise it returns no value and the plain consume that follows
\* returns that same item.
C6_NextIfIffPredicate ==
    (ev.op = "next_if" /\ call = Idle)
        => /\ ev.out.v # None =>
                /\ ev.out.v = Some(source[Len(consumed)])
                /\ Apply(ev.pred, source[Len(consumed)])
           /\ (ev.out.v = None /\ Unconsumed # << >>) =>
                /\ ~Apply(ev.pred, Unconsumed[1])
                /\ \A n \in poll_next(This) : n.out = Ready(Some(Unconsumed[1]))

\* C7: CAPACITY = 2 over the source 1, 2, 3: peek_n(2), consume, peek_n(1), consume,
\* consume, consume produce 2 (pulling 1 then 2), 1, 2 (no pull), 2, 3 (straight
\* from the source, the buffer being empty) and no value.
C7_Scenario ==
    (CAPACITY = 2 /\ source = <<1, 2, 3>>)
        => /\ scen = 1 => (ev.out = Ready(Some(2)) /\ ev.pulls = 2)
           /\ scen = 2 => ev.out = Ready(Some(1))
           /\ scen = 3 => (ev.out = Ready(Some(2)) /\ ev.pulls = 0 /\ ev.polls = 0)
           /\ scen = 4 => ev.out = Ready(Some(2))
           /\ scen = 5 => (ev.out = Ready(Some(3)) /\ ev.polls = 1)
           /\ scen = 6 => ev.out = Ready(None)

\* C8: peek_n / peek_n_mut with a depth outside 1..=CAPACITY ends in a panic and
\* returns no value (depth is a NonZeroUsize: the depths outside the range are
\* those above CAPACITY).
C8_DepthOutOfRangePanics ==
    (IsPeek(ev) /\ ~(ev.depth \in 1 .. CAPACITY)) => ev.out = Panic

C8_Witness ==
    /\ ev.op = "peek_n_mut"
    /\ ev.depth = CAPACITY + 1
    /\ ev.out = Panic
    /\ len > 0

\* C9: the items handed out by consuming calls are a prefix of the source's
\* sequence in source order, and every item pulled from the source and not yet
\* handed out is buffered, in order, in the len slots from start.
C9_NoItemLost ==
    /\ consumed = SubSeq(source, 1, Len(consumed))
    /\ Len(consumed) + len + Len(input.rest) = Len(source)
    /\ \A i \in 0 .. len - 1 :
         buffer[(start + i) % CAPACITY] = Some(source[Len(consumed) + i + 1])
    /\ input.rest = SubSeq(source, Len(consumed) + len + 1, Len(source))

C9_Witness ==
    /\ IsNextIf(ev)
    /\ ev.out.v # None
    /\ Len(consumed) >= 3
    /\ len >= 1
    /\ start > 0

\* C10: a poll_next with count > 0 returns the item in slot start, sets start to
\* (start + 1) mod CAPACITY and decrements count without polling the source; with
\* count = 0 it returns what the source's poll_next returns and leaves start and
\* count unchanged.
C10_PollNext ==
    [][ (Done /\ ev'.op = "poll_next")
          => IF len > 0
             THEN /\ ev'.out = Ready(buffer[start])
                  /\ start' = (start + 1) % CAPACITY
                  /\ len' = len - 1
                  /\ input' = input
                  /\ ev'.polls = 0
             ELSE /\ ev'.out = Input_poll_next(input).out
                  /\ input' = Input_poll_next(input).input
                  /\ start' = start
                  /\ len' = len
                  /\ ev'.polls = 1 ]_vars

C10_Witness ==
    /\ ev.op = "poll_next"
    /\ ev.polls = 0
    /\ ev.out.v # None
    /\ CAPACITY >= 2
    /\ start = 0
    /\ Len(consumed) >= CAPACITY

\* The last size_hint call: the source's lower and upper hint, the buffered count.
HintLo == obs.hint[1]
HintHi == obs.hint[2]
HintCalled == obs.out.k # "Pending"

\* C11 (as stated): size_hint reports lower bound lo + n and upper bound hi + n,
\* the upper bound saturating at the maximum representable value when hi + n
\* overflows and absent only when the source reports no upper bound.
C11_SizeHintSaturates ==
    (HintCalled /\ obs.out.k = "Ready" /\ HintLo + obs.len <= UsizeMax)
        => /\ obs.out.v[1] = HintLo + obs.len
           /\ obs.out.v[2] = IF HintHi = None THEN None
                              ELSE IF HintHi[1] + obs.len > UsizeMax THEN Some(UsizeMax)
                              ELSE Some(HintHi[1] + obs.len)

\* C11 (amended): size_hint reports the lower bound lo + n, computed by a plain
\* usize addition (beyond the maximum it panics or wraps around), and the upper
\* bound hi + n, which is absent when the source reports none and also when
\* hi + n overflows.
C11_SizeHintChecked ==
    HintCalled
        => /\ HintLo + obs.len <= UsizeMax
                => (obs.out.k = "Ready" /\ obs.out.v[1] = HintLo + obs.len)
           /\ HintLo + obs.len > UsizeMax
                => \/ obs.out.k = "Panic"
                   \/ obs.out.v[1] = (HintLo + obs.len) % (UsizeMax + 1)
           /\ obs.out.k = "Ready"
                => obs.out.v[2] = IF HintHi = None \/ HintHi[1] + obs.len > UsizeMax
                                  THEN None
                                  ELSE Some(HintHi[1] + obs.len)

C11_Witness ==
    /\ HintCalled
    /\ obs.len > 0
    /\ HintHi # None
    /\ HintHi[1] + obs.len > UsizeMax
    /\ HintLo + obs.len <= UsizeMax
    /\ obs.out.k = "Ready"
    /\ obs.out.v[2] = None

\* C12: in every reachable state is_terminated is true iff nothing is buffered
\* and the source reports terminated; it is false while an item is buffered,
\* even after the source has ended.
C12_IsTerminated ==
    /\ is_terminated(This) <=> (len = 0 /\ Input_is_terminated(input))
    /\ len > 0 => ~is_terminated(This)
    /\ is_terminated(This) => \A n \in poll_next(This) : n.out = Ready(None)

C12_Witness ==
    /\ len > 0
    /\ Input_is_terminated(input)
    /\ ~is_terminated(This)
    /\ Len(consumed) > 0

\* C13: next_if_mut(p) lets p write to the next not-yet-consumed item in place;
\* when p accepts, the item returned is that item as p left it, and when p
\* rejects, nothing is consumed and the item, as p left it, stays buffered at start.
C13_NextIfMutInPlace ==
    (ev.op = "next_if_mut" /\ ev.pred \in MutPreds /\ call = Idle)
        => /\ ev.out.v # None =>
                /\ Apply(ev.pred, source[Len(consumed)])
                /\ ev.out.v = Some(-source[Len(consumed)])
           /\ (ev.out.v = None /\ Unconsumed # << >>) =>
                /\ ~Apply(ev.pred, Unconsumed[1])
                /\ len >= 1
                /\ buffer[start] = Some(-Unconsumed[1])

\* C14: for every depth in 1..=CAPACITY a finished peek_n(depth) returns no item,
\* without panicking, exactly when fewer than depth items remain in total
\* (buffered plus still to come from the source); a peek_n called after the
\* source reported terminated does not poll the source.
C14_PeekNoneIffTooFew ==
    [][ (Done /\ IsPeek(ev') /\ ev'.depth <= CAPACITY)
          => /\ ev'.out.k = "Ready"
             /\ (ev'.out.v = None) <=> (len + Len(input.rest) < ev'.depth)
             /\ (call = Idle /\ Input_is_terminated(input))
                  => (ev'.polls = 0 /\ input' = input) ]_vars

C14_Witness ==
    /\ IsPeek(ev)
    /\ ev.depth <= CAPACITY
    /\ ev.out = Ready(None)
    /\ ev.polls = 0
    /\ len >= 1
    /\ Input_is_terminated(input)

\* A poll of the handle happens in this step.
Polled == pev'.op = "poll" /\ pev'.polls = pev.polls + 1

\* C15: a poll of a blocking adapter's operation after its first poll panics:
\* it returns no value, does not call f again and leaves adapter and referent alone.
C15_SecondPollPanics ==
    [][ (Blocking /\ Polled /\ pev.polls >= 1)
          => /\ pev'.out.k = "Panic"
             /\ proj'.projection.calls = proj.projection.calls
             /\ proj' = proj
             /\ referent' = referent ]_vars

C15_Witness ==
    /\ proj.kind = "mut"
    /\ proj.projection.f = "succ"
    /\ pev.op = "poll"
    /\ pev.polls = 2
    /\ pev.out.k = "Panic"
    /\ proj.projection.calls = 1

\* C16: every poll of an async adapter's handle polls the inner operation f(x)
\* exactly once and returns what that poll returns: pending for as many polls as
\* the inner operation is pending, then the inner operation's output.
C16_AsyncForwardsPoll ==
    [][ (proj.kind = "async" /\ Polled /\ proj.future # None)
          => LET r == Inner_poll(proj.future[1], proj.projection.f)
             IN /\ pev'.out.k = r.out.k
                /\ r.out.k = "Ready" => pev'.out.v = r.out.v
                /\ proj'.future = Some(r.fut)
                /\ pev'.polls <= proj.projection.delay => pev'.out.k = "Pending"
                /\ pev'.polls = proj.projection.delay + 1
                     => (pev'.out.k = "Ready"
                         /\ pev'.out.v = Apply(proj.projection.f, pev.arg)) ]_vars

C16_Witness ==
    /\ proj.kind = "async"
    /\ proj.projection.delay = MaxPending
    /\ handle # None
    /\ pev.op = "poll"
    /\ pev.polls = MaxPending + 1
    /\ pev.out.k = "Ready"
    /\ pev.out.v = Apply(proj.projection.f, pev.arg)

\* C17: on an async adapter whose slot holds no operation, an is_terminated query
\* and a poll both end in a panic, never in a returned value. (The operation's
\* view exists only from a start on; the slot under it is empty once the
\* handle's cleanup ran while the caller still holds the pin taken out of it.)
C17_AsyncEmptySlotPanics ==
    /\ (proj.kind = "async" /\ taken # None /\ proj.future = None)
          => /\ PinHandleMut_is_terminated(PinHandleMut_new(taken[1], None), proj).k = "Panic"
             /\ \A o \in PinHandleMut_poll(PinHandleMut_new(taken[1], None), proj, referent) :
                  o.out.k = "Panic" /\ o.self = proj
    /\ (proj.kind = "async" /\ pev.op = "poll_taken" /\ proj.future = None)
          => pev.out.k = "Panic"

C17_Witness ==
    /\ proj.kind = "async"
    /\ taken # None
    /\ handle = None
    /\ proj.future = None
    /\ pev.op = "poll_taken"
    /\ pev.runs = 1
    /\ pev.out.k = "Panic"

\* A start operation happens in this step.
Started == pev'.op = "project" /\ (pev.op # "project" \/ pev'.arg # pev.arg)

\* C18: at most one transformation is in flight per transformer: a start
\* operation takes place only while no handle of an earlier start, and no pin
\* taken out of one, is alive.
C18_OneInFlight ==
    [][ Started => (handle = None /\ taken = None /\ handle' # None) ]_vars

C18_Witness ==
    /\ pev.op = "project"
    /\ handle # None
    /\ proj.projection.calls >= 2
    /\ proj.kind = "async"

\* C19: while the handle of a blocking adapter is alive, its is_terminated
\* equals "the pending-input slot is empty": false from the start of the
\* transformation until the first poll, true from that poll on.
C19_FusedBlockingTerminated ==
    (Blocking /\ handle # None)
        => LET t == PinHandleMut_is_terminated(handle[1], proj)
           IN /\ t.k = "Ready"
              /\ t.v = (proj.param = None)
              /\ t.v = (pev.polls >= 1)

C19_Witness ==
    /\ proj.kind = "value"
    /\ handle # None
    /\ pev.op = "poll"
    /\ pev.polls = 2
    /\ PinHandleMut_is_terminated(handle[1], proj).v = TRUE

\* C20: in every reachable state of a PeekStream, 0 <= count <= CAPACITY and
\* 0 <= start < CAPACITY.
C20_RingBounds ==
    /\ len \in 0 .. CAPACITY
    /\ start \in 0 .. CAPACITY - 1

C20_Witness ==
    /\ CAPACITY >= 2
    /\ len = CAPACITY
    /\ start = CAPACITY - 1
    /\ IsNextIf(ev)

\* The slots holding the n buffered items of a ring that starts at s.
LiveRange(s, n) == {(s + i) % CAPACITY : i \in 0 .. n - 1}

\* C21: every slot a PeekStream operation reads, returns a reference to or hands
\* to a predicate lies in the live range, the count slots from start: the slot
\* peek_n / peek_n_mut return, the slot next_if / next_if_mut test (the count
\* taken before the consume that follows an accept), the slot a consume pops.
C21_OnlyLiveSlots ==
    [][ /\ (Done /\ ev'.seen # None)
            => LET n == IF IsNextIf(ev') /\ ev'.out.v # None THEN len' + 1 ELSE len'
               IN /\ ev'.seen[1] \in LiveRange(start, n)
                  /\ buffer'[ev'.seen[1]] # Uninit
        /\ (Done /\ ev'.op = "poll_next" /\ ev'.polls = 0)
            => (len > 0 /\ buffer[start] # Uninit) ]_vars

\* A start operation on a blocking adapter whose slot holds an unconsumed input.
StartedOnFullSlot == Blocking /\ Started /\ proj.param # None

\* C22 (as stated): a start on a blocking adapter whose pending-input slot
\* already holds an unconsumed input fails with a panic and leaves the held
\* input in the slot.
C22_StartOnFullSlotPanics ==
    [][ StartedOnFullSlot
          => (pev'.out.k = "Panic" /\ proj'.param = proj.param /\ handle' = None) ]_vars

\* C22 (amended): a start on a blocking adapter whose pending-input slot already
\* holds an unconsumed input does not fail: it returns a handle and overwrites
\* the slot with the new input, the held input being dropped unused.
C22_StartOnFullSlotOverwrites ==
    [][ StartedOnFullSlot
          => /\ handle' # None
             /\ pev'.out.k # "Panic"
             /\ proj'.param # None
             /\ proj'.projection.calls = proj.projection.calls
             /\ IF proj.kind = "value"
                THEN proj'.param = Some(pev'.arg)
                ELSE referent'[proj'.param[1]] = Some(pev'.arg) ]_vars

C22_Witness ==
    /\ proj.kind = "mut"
    /\ pev.op = "project"
    /\ pev.after_cancel
    /\ pev.arg = MaxValue
    /\ handle # None
    /\ proj.param # None
    /\ referent[proj.param[1]] = Some(MaxValue)

\* C23 (as stated): for every blocking adapter the pending-input slot is empty
\* whenever no handle is alive, after any sequence of starts, polls and drops.
C23_SlotEmptyWithoutHandle ==
    (Blocking /\ handle = None) => proj.param = None

\* C23 (amended): while no handle is alive, the slot of the by-value adapter is
\* empty, and the slot of the by-reference and by-mutable-reference adapters is
\* empty unless the last handle was dropped without being polled: having no
\* cleanup action, such a handle leaves its pointer in the slot.
C23_SlotEmptyUnlessDroppedUnpolled ==
    (Blocking /\ handle = None)
        => IF proj.kind = "value"
           THEN proj.param = None
           ELSE (proj.param # None) <=> (pev.op = "drop" /\ pev.polls = 0)

C23_Witness ==
    /\ proj.kind = "ref"
    /\ handle = None
    /\ pev.op = "drop"
    /\ pev.polls = 0
    /\ proj.param # None
    /\ proj.projection.calls >= 1

\* C24: for the by-value blocking adapter and the async adapter, once the handle
\* has been dropped (unpolled, while pending or after it resolved) the adapter's
\* slot is empty: neither an unconsumed input nor an inner operation survives it.
C24_DropEmptiesSlot ==
    (proj.kind \in {"value", "async"} /\ handle = None)
        => (proj.param = None /\ proj.future = None)

C24_Witness ==
    /\ proj.kind = "async"
    /\ handle = None
    /\ taken = None
    /\ pev.op = "drop"
    /\ pev.polls = 1
    /\ pev.out.k = "Pending"
    /\ pev.runs = 1
    /\ proj.future = None

\* C25: a blocking adapter never suspends: no poll of its handle returns
\* Pending, and the first poll of a freshly started transformation returns
\* Ready, so one poll drives the transformation to completion.
C25_BlockingNeverPending ==
    [][ (Blocking /\ Polled)
          => /\ pev'.out.k # "Pending"
             /\ pev.polls = 0 => pev'.out.k = "Ready" ]_vars

C25_Witness ==
    /\ proj.kind = "value"
    /\ handle # None
    /\ pev.op = "poll"
    /\ pev.polls = 1
    /\ pev.out.k = "Ready"
    /\ proj.param = None

\* The number of calls of the wrapped closure so far, before and after a step.
Calls == proj.projection.calls
CallsAfter == proj'.projection.calls

\* C26: a blocking adapter calls f lazily and once per completed transformation:
\* the start operation and the drop of the handle do not call f, the first poll
\* calls it exactly once, with the started input, and no later poll calls it.
C26_BlockingCallsLazily ==
    [][ Blocking
          => /\ CallsAfter # Calls => (Polled /\ pev.polls = 0)
             /\ (Polled /\ pev.polls = 0)
                  => /\ CallsAfter = Calls + 1
                     /\ pev'.out.k = "Ready"
                     /\ pev'.out.v = Apply(proj.projection.f, pev.arg) ]_vars

C26_Witness ==
    /\ proj.kind = "mut"
    /\ handle # None
    /\ pev.op = "poll"
    /\ pev.polls = 1
    /\ pev.after_cancel
    /\ Calls = 1

\* C27: the async adapter calls f eagerly and once per start: f(x) is invoked
\* inside the start operation and its result is the operation stored in the
\* slot, also when the handle is never polled; polls and drops never call f.
C27_AsyncCallsEagerly ==
    [][ proj.kind = "async"
          => /\ CallsAfter # Calls => Started
             /\ Started
                  => /\ CallsAfter = Calls + 1
                     /\ proj'.future = Some(Call(proj.projection, pev'.arg)) ]_vars

C27_Witness ==
    /\ proj.kind = "async"
    /\ handle = None
    /\ pev.op = "drop"
    /\ pev.polls = 0
    /\ Calls = 2

\* C28: from the start operation until the handle is dropped, is_terminated of
\* an async adapter's handle returns the inner operation's is_terminated: false
\* until the inner operation has resolved, true from then on.
C28_AsyncTerminatedForwards ==
    (proj.kind = "async" /\ proj.projection.fused /\ handle # None)
        => LET t == PinHandleMut_is_terminated(handle[1], proj)
           IN /\ proj.future # None
              /\ t.k = "Ready"
              /\ t.v = Inner_is_terminated(proj.future[1])
              /\ t.v = (pev.polls > proj.projection.delay)

C28_Witness ==
    /\ proj.kind = "async"
    /\ proj.projection.fused
    /\ proj.projection.delay >= 1
    /\ handle # None
    /\ pev.op = "poll"
    /\ pev.polls = proj.projection.delay + 1
    /\ PinHandleMut_is_terminated(handle[1], proj).v = TRUE

\* C29: for every adapter, the async adapter included, a poll of the handle
\* after its operation has resolved ends in a panic: it is never answered.
C29_PollAfterResolvedPanics ==
    (pev.op = "poll" /\ pev.polls >= proj.projection.delay + 2)
        => pev.out.k = "Panic"

\* C30 (as stated): no sequence of starts, polls and drops of a blocking adapter
\* and its handle ends a poll in the "poll called twice" panic.
C30_DoublePollPanicUnreachable ==
    Blocking => pev.out.k # "Panic"

\* C30: on a blocking adapter the "poll called twice" panic is reached exactly by
\* polling one handle a second time through Future::poll: the first poll of every
\* started operation resolves, and every poll after it panics. Starting and
\* dropping do not panic.
C30_PanicExactlyOnSecondPoll ==
    Blocking =>
        /\ (pev.out.k = "Panic") <=> (pev.op \in {"poll", "drop"} /\ pev.polls >= 2)
        /\ (pev.op = "poll" /\ pev.polls = 1) => pev.out.k = "Ready"

C30_Witness ==
    /\ proj.kind = "value"
    /\ handle # None
    /\ pev.op = "poll"
    /\ pev.polls = 2
    /\ pev.out.k = "Panic"
    /\ proj.param = None


\* C31: a next_if(p) call made with count >= 1 whose predicate rejects (the call
\* returns no item) leaves the stream as it was: start, count, the buffer and the
\* consumed items are unchanged and the source is not polled.
C31_NextIfRejectFrame ==
    [][ (Done /\ ev'.op = "next_if" /\ call = Idle /\ len >= 1 /\ ev'.out.v = None)
          => /\ ev'.seen # None
             /\ start' = start
             /\ len' = len
             /\ buffer' = buffer
             /\ input' = input
             /\ consumed' = consumed
             /\ ev'.polls = 0
             /\ ev'.pulls = 0 ]_vars

C31_Witness ==
    /\ ev.op = "next_if"
    /\ ev.pred = "is_even"
    /\ ev.out = Ready(None)
    /\ ev.seen # None
    /\ ev.pulls = 0
    /\ ev.polls = 0
    /\ len >= 2
    /\ start > 0


\* No next item exists: nothing is buffered and the source has nothing more to yield.
NoNextItem == len = 0 /\ input.rest = << >>

\* C32: a next_if / next_if_mut call pulls at most one item from the source, and
\* only when nothing is buffered; with an item buffered it does not poll the
\* source; when no next item exists it returns no item and the predicate is not
\* invoked.
C32_NextIfPullsAtMostOne ==
    [][ /\ (Done /\ IsNextIf(ev'))
            => /\ ev'.pulls <= 1
               /\ Len(input.rest) - Len(input'.rest) <= 1
               /\ len >= 1 => (ev'.pulls = 0 /\ input' = input)
               /\ NoNextItem => (ev'.out = Ready(None) /\ ev'.seen = None
                                   /\ consumed' = consumed /\ len' = 0)
        /\ IsNextIf(call')
            => /\ len = 0
               /\ call'.pulls = 0
               /\ input'.rest = input.rest ]_vars

C32_Witness ==
    /\ ev.op = "next_if_mut"
    /\ ev.pred \in MutPreds
    /\ ev.pulls = 1
    /\ ev.out.v # None
    /\ Len(consumed) >= 2
    /\ CAPACITY >= 2


\* A step of a peek_n / peek_n_mut call: it finishes, or it is suspended after it.
PeekStep == (Done /\ IsPeek(ev')) \/ IsPeek(call')

\* The slots a step writes.
Written == {i \in 0 .. CAPACITY - 1 : buffer'[i] # buffer[i]}

\* C33: a peek_n / peek_n_mut call never consumes: start is unchanged, count does
\* not decrease, no slot of the live range changes, and the slots it writes are
\* the slots (start + count) mod CAPACITY of the moment of each write, which lie
\* outside the live range; nothing is handed out as consumed.
C33_PeekNeverConsumes ==
    [][ PeekStep
          => /\ start' = start
             /\ len' >= len
             /\ len' <= CAPACITY
             /\ consumed' = consumed
             /\ \A i \in LiveRange(start, len) : buffer'[i] = buffer[i]
             /\ Written \subseteq {(start + n) % CAPACITY : n \in len .. len' - 1}
             /\ Written \cap LiveRange(start, len) = {} ]_vars

C33_Witness ==
    /\ ev.op = "peek_n"
    /\ ev.depth = CAPACITY
    /\ ev.pulls >= 1
    /\ ev.out.v # None
    /\ len = CAPACITY
    /\ start > 0
    /\ CAPACITY >= 2


\* C34: a peek_n / peek_n_mut call with depth > CAPACITY panics before it does
\* anything else: at the panic the source has not been polled and start, count
\* and the buffer are as they were before the call.
C34_AssertBeforeAnything ==
    [][ (Done /\ IsPeek(ev') /\ ev'.depth > CAPACITY)
          => /\ ev'.out = Panic
             /\ call = Idle
             /\ input' = input
             /\ start' = start
             /\ len' = len
             /\ buffer' = buffer
             /\ ev'.polls = 0
             /\ ev'.pulls = 0 ]_vars

C34_Witness ==
    /\ ev.op = "peek_n"
    /\ ev.depth = CAPACITY + 1
    /\ ev.out = Panic
    /\ ev.polls = 0
    /\ len < CAPACITY
    /\ input.rest # << >>
    /\ input.ready > 0


\* The caller drops a suspended peek_n / peek_n_mut / next_if / next_if_mut future.
Abandoned == call # Idle /\ call' = Idle /\ ~Done

\* C35: dropping a peek_n, peek_n_mut, next_if or next_if_mut future suspended on
\* the source changes nothing and leaves the stream consistent: the items the
\* source has yielded and nobody consumed are exactly the count items buffered
\* from start, in order; every later consume hands out the next item of the
\* source's sequence, so none is lost.
C35_AbandonLeavesConsistent ==
    [][ /\ Abandoned
            => /\ Len(consumed') + len' + Len(input'.rest) = Len(source)
               /\ <<input', buffer', start', len', consumed'>>
                     = <<input, buffer, start, len, consumed>>
               /\ len' \in 0 .. CAPACITY
               /\ \A i \in 0 .. len' - 1 :
                    buffer'[(start' + i) % CAPACITY] = Some(source[Len(consumed') + i + 1])
               /\ input'.rest = SubSeq(source, Len(consumed') + len' + 1, Len(source))
        /\ (Done /\ consumed' # consumed)
            => /\ Len(consumed') = Len(consumed) + 1
               /\ Len(consumed') <= Len(source)
               /\ consumed' = SubSeq(source, 1, Len(consumed')) ]_vars

\* No call has finished yet, no call is in flight, and two items are buffered: a
\* peek pulled them, was suspended on the source and was dropped.
C35_Witness ==
    /\ ev.op = "new"
    /\ call = Idle
    /\ len = 2
    /\ buffer[0] = Some(1)
    /\ buffer[1] = Some(2)
    /\ input.rest # << >>


\* C36: the source's is_terminated never reverting, once is_terminated of the
\* PeekStream is true it is true after every further step (peek_n, peek_n_mut,
\* next_if, next_if_mut, poll_next), count stays 0 and nothing more is consumed.
C36_TerminationStable ==
    [][ is_terminated(This)
          => /\ len' = 0
             /\ Input_is_terminated(input')
             /\ consumed' = consumed
             /\ call' = Idle
             /\ Done => ev'.out \in {Ready(None), Panic} ]_vars

C36_Witness ==
    /\ is_terminated(This)
    /\ IsNextIf(ev)
    /\ ev.out = Ready(None)
    /\ ev.polls = 0
    /\ ev.seen = None
    /\ Len(consumed) = Len(source)
    /\ Len(source) >= 2


\* C37: for every MODULE >= 1 and modular indices a, b below MODULE, a - b is the
\* forward distance d from b to a: 0 <= d < MODULE and (b + d) mod MODULE = a; it
\* is never negative.
C37_SubForwardDistance ==
    obs.op = "sub"
        => /\ obs.out.k = "Ready"
           /\ obs.out.v \in 0 .. CAPACITY - 1
           /\ (obs.rhs + obs.out.v) % CAPACITY = obs.a

C37_Witness ==
    /\ obs.op = "sub"
    /\ CAPACITY >= 3
    /\ obs.a < obs.rhs
    /\ obs.a > 0
    /\ obs.out.k = "Ready"
    /\ obs.out.v = CAPACITY - obs.rhs + obs.a

\* C38: for every MODULE >= 1, modular index a below MODULE and rhs >= 0, a + rhs
\* is (a + rhs) mod MODULE, an index below MODULE; += leaves that index in place
\* of a; and the addition does not panic when 2 * MODULE fits a usize.
C38_AddWraps ==
    /\ start \in 0 .. CAPACITY - 1
    /\ obs.op \in {"add", "add_assign"}
        => /\ obs.out.k \in {"Ready", "Panic"}
           /\ obs.out.k = "Ready"
                => /\ obs.out.v = (obs.a + obs.rhs) % CAPACITY
                   /\ obs.out.v \in 0 .. CAPACITY - 1
           /\ 2 * CAPACITY <= UsizeMax => obs.out.k = "Ready"
           /\ obs.op = "add_assign"
                => start = (IF obs.out.k = "Ready" THEN obs.out.v ELSE obs.a)
           /\ obs.op = "add" => start = obs.a

C38_Witness ==
    /\ obs.op = "add_assign"
    /\ 2 * CAPACITY <= UsizeMax
    /\ obs.a + obs.rhs > UsizeMax
    /\ obs.rhs > CAPACITY
    /\ obs.out.k = "Ready"
    /\ start = (obs.a + obs.rhs) % CAPACITY
    /\ start # obs.a

====
